---- MODULE Spec2Model ----
(***************************************************************************)
(* Multi-tenant product catalogue: the tenant registry (Client), the       *)
(* tenant-scoped rows (Categorie, Marque, Article), the admin surface      *)
(* (admin.py) and the public API (views.py, serializer.py, urls.py).       *)
(*                                                                         *)
(* Text values are sequences of one-character strings, so that strip,      *)
(* rstrip, lower, iexact and icontains are computed and not assumed.       *)
(* Header values (Origin, Referer, Client.domaine) are sequences of URL    *)
(* atoms: "https", ":", "/", a host, a path segment, "[".                  *)
(***************************************************************************)
EXTENDS Integers, Sequences, FiniteSets, TLC

VARIABLES clients, categories, marques, articles, nextId, resp

vars == <<clients, categories, marques, articles, nextId, resp>>

---------------------------------------------------------------------------
(* Bounds of the model *)

MaxClients == 2
MaxCategories == 1
MaxMarques == 2
MaxArticles == 1

---------------------------------------------------------------------------
(* Values *)

\* python None for an optional text or header value
None == <<"None">>
\* python None for an optional foreign key or a resolved tenant
NoId == 0

\* django.contrib.auth users; "root" is the superuser, the others are staff
Users == {"root", "alice", "bob"}

is_superuser(u) == u = "root"

\* the accounts a tenant is handed to
Staff == {"alice", "bob"}

dA == <<"https", ":", "/", "/", "a.com">>
dB == <<"https", ":", "/", "/", "b.com">>

\* values a superuser types into Client.domaine
Domaines == {dA, dB}

\* values of the Origin header (None: header absent)
OriginHeaders == {None, <<>>, dA, dA \o <<"/">>, dB}

\* values of the Referer header (None: header absent)
RefererHeaders == {None, dB \o <<"/", "p">>, <<"p">>, <<"https", ":", "/", "/", "[">>}

\* names of categories, brands and article models
Noms == {<<"b">>}

Prix == {1}

\* a price bound of the query string: absent, not a number, or a number
NoPrix == -1
BadPrix == -2

---------------------------------------------------------------------------
(* Text operations *)

Lower(c) ==
  CASE c = "A" -> "a"
    [] c = "B" -> "b"
    [] c = "L" -> "l"
    [] OTHER -> c

lower(s) == [i \in 1..Len(s) |-> Lower(s[i])]

IsSpace(c) == c = " "

RECURSIVE lstrip(_)
lstrip(s) == IF s # <<>> /\ IsSpace(Head(s)) THEN lstrip(Tail(s)) ELSE s

RECURSIVE rstrip(_)
rstrip(s) ==
  IF s # <<>> /\ IsSpace(s[Len(s)]) THEN rstrip(SubSeq(s, 1, Len(s) - 1)) ELSE s

\* str.strip()
strip(s) == rstrip(lstrip(s))

\* str.rstrip('/')
RECURSIVE rstrip_slash(_)
rstrip_slash(s) ==
  IF s # <<>> /\ s[Len(s)] = "/" THEN rstrip_slash(SubSeq(s, 1, Len(s) - 1)) ELSE s

\* sub in s
Contains(sub, s) ==
  \E i \in 0..(Len(s) - Len(sub)) : SubSeq(s, i + 1, i + Len(sub)) = sub

\* the __icontains and __iexact lookups
icontains(value, term) == Contains(lower(term), lower(value))
iexact(value, term) == lower(value) = lower(term)

replace_underscore(s) == [i \in 1..Len(s) |-> IF s[i] = "_" THEN " " ELSE s[i]]

---------------------------------------------------------------------------
(* urllib.parse.urlparse on atom sequences *)

SchemeAtom(a) == a \notin {":", "/", "[", "]", " "}

\* index of the first ":" whose prefix is a non-empty run of scheme atoms, or 0
SchemeEnd(url) ==
  LET colons == {i \in 1..Len(url) : url[i] = ":"}
      first == IF colons = {} THEN 0
               ELSE CHOOSE i \in colons : \A j \in colons : i <= j
  IN IF first > 1 /\ \A k \in 1..(first - 1) : SchemeAtom(url[k]) THEN first ELSE 0

url_scheme(url) == SubSeq(url, 1, SchemeEnd(url) - 1)

url_rest(url) == SubSeq(url, SchemeEnd(url) + 1, Len(url))

\* the netloc: what follows a leading "//" up to the next "/"
url_netloc(url) ==
  LET rest == url_rest(url)
  IN IF Len(rest) >= 2 /\ rest[1] = "/" /\ rest[2] = "/"
       THEN LET after == SubSeq(rest, 3, Len(rest))
                stops == {i \in 1..Len(after) : after[i] = "/"}
                stop == IF stops = {} THEN Len(after) + 1
                        ELSE CHOOSE i \in stops : \A j \in stops : i <= j
            IN SubSeq(after, 1, stop - 1)
       ELSE <<>>

InSeq(a, s) == \E i \in 1..Len(s) : s[i] = a

\* urlparse raises ValueError("Invalid IPv6 URL") on an unbalanced bracket
urlparse_raises(url) ==
  LET n == url_netloc(url)
  IN (InSeq("[", n) /\ ~InSeq("]", n)) \/ (InSeq("]", n) /\ ~InSeq("[", n))

---------------------------------------------------------------------------
(* State *)

Models == {"categorie", "marque", "article"}

\* the rows of a tenant-scoped table
Table(model) ==
  CASE model = "categorie" -> categories
    [] model = "marque" -> marques
    [] model = "article" -> articles

Ids(rows) == {r.id : r \in rows}

Row(rows, id) == CHOOSE r \in rows : r.id = id

NoParams ==
  [marque |-> None, categorie |-> None, prix_min |-> NoPrix, prix_max |-> NoPrix,
   q |-> None, search |-> None, ordering |-> "", page_size |-> 0]

\* what the operation handled last received and answered
NoResp ==
  [surface |-> "none", op |-> "", model |-> "", user |-> "", posted_client |-> NoId,
   origin |-> None, referer |-> None, params |-> NoParams, target |-> NoId,
   status |-> 0, resolved |-> FALSE, client |-> NoId, rows |-> {}, order |-> <<>>,
   body |-> {}, marque_options |-> {}, categorie_options |-> {}]

Init ==
  /\ clients = {}
  /\ categories = {}
  /\ marques = {}
  /\ articles = {}
  /\ nextId = [client |-> 1, categorie |-> 1, marque |-> 1, article |-> 1]
  /\ resp = NoResp

---------------------------------------------------------------------------
(* models.py: constraints and cascades *)

\* Client.domaine and Client.utilisateur_admin are unique
ClientUnique(rows) ==
  \A c, d \in rows :
    c.id # d.id => c.domaine # d.domaine /\ c.utilisateur_admin # d.utilisateur_admin

\* unique_together = ['client', 'nom'] of Categorie
CategorieUnique(rows) ==
  \A r, s \in rows : r.id # s.id => ~(r.client = s.client /\ r.nom = s.nom)

\* unique_together = ['client', 'nom_marque'] of Marque
MarqueUnique(rows) ==
  \A r, s \in rows :
    r.id # s.id => ~(r.client = s.client /\ r.nom_marque = s.nom_marque)

\* on_delete=CASCADE from a set of deleted brands and categories to articles
CascadeArticles(rows, deadMarques, deadCategories) ==
  {a \in rows : a.marque \notin deadMarques /\ a.categorie \notin deadCategories}

\* request.user.client: the tenant linked one-to-one to the user, NoId when
\* the reverse lookup raises Client.DoesNotExist
user_client(u) ==
  IF \E c \in clients : c.utilisateur_admin = u
    THEN (CHOOSE c \in clients : c.utilisateur_admin = u).id
    ELSE NoId

---------------------------------------------------------------------------
(* admin.py: ClientAdmin *)

has_module_permission(u) == is_superuser(u)
has_view_permission(u) == is_superuser(u)
has_add_permission(u) == is_superuser(u)
\* the change permission left to the framework's default for staff
has_change_permission_staff(u) == u \in Users
has_change_permission(u) == is_superuser(u)
has_delete_permission(u) == is_superuser(u)

\* request-per-invocation: a handler runs when no response is pending
Idle == resp.surface = "none"

AdminResp(op, model, u, status) ==
  [surface |-> "admin", op |-> op, model |-> model, user |-> u, status |-> status]

Unchanged_rows == UNCHANGED <<categories, marques, articles>>

\* the Client changelist
ClientAdminView(u) ==
  /\ Idle
  /\ resp' = (IF has_module_permission(u) /\ has_view_permission(u)
                THEN [rows |-> clients] @@ AdminResp("list", "client", u, 200)
                ELSE AdminResp("list", "client", u, 403)) @@ NoResp
  /\ UNCHANGED <<clients, nextId>>
  /\ Unchanged_rows

ClientAdminAdd(u, domaine, actif, admin_user) ==
  LET new == [id |-> nextId.client, domaine |-> domaine, actif |-> actif,
              utilisateur_admin |-> admin_user]
  IN /\ Idle
     /\ nextId.client <= MaxClients
     /\ IF ~has_add_permission(u)
          THEN /\ resp' = AdminResp("add", "client", u, 403) @@ NoResp
               /\ UNCHANGED <<clients, nextId>>
          ELSE IF ~ClientUnique(clients \cup {new})
            THEN /\ resp' = [body |-> {"errors"}] @@ AdminResp("add", "client", u, 200)
                              @@ NoResp
                 /\ UNCHANGED <<clients, nextId>>
            ELSE /\ clients' = clients \cup {new}
                 /\ nextId' = [nextId EXCEPT !.client = @ + 1]
                 /\ resp' = [target |-> new.id] @@ AdminResp("add", "client", u, 302)
                              @@ NoResp
     /\ Unchanged_rows

ClientAdminChange(u, id, domaine, actif, admin_user) ==
  LET new == [id |-> id, domaine |-> domaine, actif |-> actif,
              utilisateur_admin |-> admin_user]
      others == {c \in clients : c.id # id}
  IN /\ Idle
     /\ id \in Ids(clients)
     /\ IF ~has_change_permission(u)
          THEN /\ resp' = [target |-> id] @@ AdminResp("change", "client", u, 403)
                            @@ NoResp
               /\ UNCHANGED clients
          ELSE IF ~ClientUnique(others \cup {new})
            THEN /\ resp' = [target |-> id, body |-> {"errors"}]
                              @@ AdminResp("change", "client", u, 200) @@ NoResp
                 /\ UNCHANGED clients
            ELSE /\ clients' = others \cup {new}
                 /\ resp' = [target |-> id] @@ AdminResp("change", "client", u, 302)
                              @@ NoResp
     /\ UNCHANGED nextId
     /\ Unchanged_rows

\* deleting a Client cascades to its categories, brands and articles, and from
\* those to the articles that reference them
ClientAdminDelete(u, id) ==
  /\ Idle
  /\ id \in Ids(clients)
  /\ IF ~has_delete_permission(u)
       THEN /\ resp' = [target |-> id] @@ AdminResp("delete", "client", u, 403) @@ NoResp
            /\ UNCHANGED <<clients, categories, marques, articles>>
       ELSE LET deadC == {r.id : r \in {x \in categories : x.client = id}}
                deadM == {r.id : r \in {x \in marques : x.client = id}}
            IN /\ clients' = {c \in clients : c.id # id}
               /\ categories' = {r \in categories : r.client # id}
               /\ marques' = {r \in marques : r.client # id}
               /\ articles' = CascadeArticles({a \in articles : a.client # id},
                                              deadM, deadC)
               /\ resp' = [target |-> id] @@ AdminResp("delete", "client", u, 302)
                            @@ NoResp
  /\ UNCHANGED nextId

---------------------------------------------------------------------------
(* admin.py: ClientFilterMixin and the list filters *)

\* get_queryset with the filter on the user's client forgotten
admin_get_queryset_unfiltered(u, rows) ==
  IF is_superuser(u) \/ user_client(u) # NoId THEN rows ELSE {}

\* ClientFilterMixin.get_queryset
admin_get_queryset(u, rows) ==
  IF is_superuser(u) THEN rows
  ELSE IF user_client(u) # NoId
    THEN {r \in rows : r.client = user_client(u)}
    ELSE {}

\* the fields each ModelAdmin declares (fields, or its fieldsets flattened)
declared_fields(model) ==
  CASE model = "categorie" -> {"nom"}
    [] model = "marque" -> {"nom_marque", "logo"}
    [] model = "article" ->
         {"marque", "modele", "prix", "categorie", "stokcage", "ram", "image",
          "image1", "image2", "apercu_images_complet", "date_ajout",
          "date_modification"}

\* ClientFilterMixin.get_fields / get_fieldsets
get_fields(u, model) ==
  IF ~is_superuser(u) THEN declared_fields(model) \ {"client"}
  ELSE declared_fields(model)

\* formfield_for_foreignkey that narrows the picker only for users without a
\* tenant
formfield_for_foreignkey_unfiltered(field, u) ==
  LET related == IF field = "marque" THEN marques ELSE categories
  IN IF ~is_superuser(u) /\ user_client(u) = NoId THEN {} ELSE related

\* the related rows a ForeignKey form field offers
formfield_for_foreignkey(field, u) ==
  LET related == IF field = "marque" THEN marques ELSE categories
  IN IF ~is_superuser(u)
       THEN IF user_client(u) # NoId
              THEN {r \in related : r.client = user_client(u)}
              ELSE {}
       ELSE related

\* ClientMarqueFilter.lookups
ClientMarqueFilter_lookups(u) ==
  IF is_superuser(u) THEN marques
  ELSE IF user_client(u) # NoId
    THEN {r \in marques : r.client = user_client(u)}
    ELSE {}

\* ClientCategorieFilter.lookups
ClientCategorieFilter_lookups(u) ==
  IF is_superuser(u) THEN categories
  ELSE IF user_client(u) # NoId
    THEN {r \in categories : r.client = user_client(u)}
    ELSE {}

\* the instance the ModelForm builds: a field that is not a form field keeps
\* the instance's value, whatever the request posts for it
\* the form's client taken from the request whoever the user is
construct_client_posted(u, model, posted_client, current) == posted_client

\* ModelForm.save: the client field is written when get_fields shows it
construct_client(u, model, posted_client, current) ==
  IF "client" \in get_fields(u, model) THEN posted_client ELSE current

\* save_model stamping the first tenant of the registry instead of the
\* user's own
save_model_first_client(u, obj, change) ==
  IF ~change /\ ~is_superuser(u) /\ user_client(u) # NoId
    THEN [obj EXCEPT !.client = CHOOSE c \in Ids(clients) : \A d \in Ids(clients) : c <= d]
    ELSE obj

\* ClientFilterMixin.save_model, up to the call of super().save_model
save_model(u, obj, change) ==
  IF ~change /\ ~is_superuser(u) /\ user_client(u) # NoId
    THEN [obj EXCEPT !.client = user_client(u)]
    ELSE obj

Saved(op, model, u, id) ==
  [target |-> id, body |-> {"saved"}] @@ AdminResp(op, model, u, 302) @@ NoResp

FormErrors(op, model, u, id) ==
  [target |-> id, body |-> {"errors"}] @@ AdminResp(op, model, u, 200) @@ NoResp

IntegrityError(op, model, u, id) ==
  [target |-> id, body |-> {"integrity_error"}] @@ AdminResp(op, model, u, 500) @@ NoResp

DoesNotExist(op, model, u, id) ==
  [target |-> id, body |-> {"does_not_exist"}] @@ AdminResp(op, model, u, 302) @@ NoResp

\* the changelist of a tenant-scoped model, with the lookups of its list filters
AdminChangelist(u, model) ==
  /\ Idle
  /\ resp' = [rows |-> admin_get_queryset(u, Table(model)),
              marque_options |->
                IF model = "article" THEN ClientMarqueFilter_lookups(u) ELSE {},
              categorie_options |->
                IF model = "article" THEN ClientCategorieFilter_lookups(u) ELSE {}]
               @@ AdminResp("list", model, u, 200) @@ NoResp
  /\ UNCHANGED <<clients, categories, marques, articles, nextId>>

\* the add or change form of an Article: the options of its two pickers
AdminArticleForm(u) ==
  /\ Idle
  /\ resp' = [marque_options |-> formfield_for_foreignkey("marque", u),
              categorie_options |-> formfield_for_foreignkey("categorie", u)]
               @@ AdminResp("form", "article", u, 200) @@ NoResp
  /\ UNCHANGED <<clients, categories, marques, articles, nextId>>

---------------------------------------------------------------------------
(* admin.py: add, change and delete views of CategorieAdmin, MarqueAdmin and
   ArticleAdmin. Model.save() raises IntegrityError on a missing client and
   on a unique_together violation, and the view's transaction rolls back. *)

AdminAddCategorie(u, posted_client, nom) ==
  LET built == [id |-> nextId.categorie,
                client |-> construct_client(u, "categorie", posted_client, NoId),
                nom |-> nom]
      obj == save_model(u, built, FALSE)
  IN /\ Idle
     /\ nextId.categorie <= MaxCategories
     /\ IF obj.client = NoId \/ ~CategorieUnique(categories \cup {obj})
          THEN /\ resp' = [posted_client |-> posted_client]
                            @@ IntegrityError("add", "categorie", u, NoId)
               /\ UNCHANGED <<categories, nextId>>
          ELSE /\ categories' = categories \cup {obj}
               /\ nextId' = [nextId EXCEPT !.categorie = @ + 1]
               /\ resp' = [posted_client |-> posted_client]
                            @@ Saved("add", "categorie", u, obj.id)
     /\ UNCHANGED <<clients, marques, articles>>

AdminChangeCategorie(u, id, posted_client, nom) ==
  /\ Idle
  /\ id \in Ids(categories)
  /\ IF id \notin Ids(admin_get_queryset(u, categories))
       THEN /\ resp' = DoesNotExist("change", "categorie", u, id)
            /\ UNCHANGED categories
       ELSE LET cur == Row(categories, id)
                built == [cur EXCEPT
                            !.client = construct_client(u, "categorie", posted_client, @),
                            !.nom = nom]
                obj == save_model(u, built, TRUE)
                others == {r \in categories : r.id # id}
            IN IF ~CategorieUnique(others \cup {obj})
                 THEN /\ resp' = [posted_client |-> posted_client]
                                   @@ IntegrityError("change", "categorie", u, id)
                      /\ UNCHANGED categories
                 ELSE /\ categories' = others \cup {obj}
                      /\ resp' = [posted_client |-> posted_client]
                                   @@ Saved("change", "categorie", u, id)
  /\ UNCHANGED <<clients, marques, articles, nextId>>

AdminDeleteCategorie(u, id) ==
  /\ Idle
  /\ id \in Ids(categories)
  /\ IF id \notin Ids(admin_get_queryset(u, categories))
       THEN /\ resp' = DoesNotExist("delete", "categorie", u, id)
            /\ UNCHANGED <<categories, articles>>
       ELSE /\ categories' = {r \in categories : r.id # id}
            /\ articles' = CascadeArticles(articles, {}, {id})
            /\ resp' = Saved("delete", "categorie", u, id)
  /\ UNCHANGED <<clients, marques, nextId>>

AdminAddMarque(u, posted_client, nom) ==
  LET built == [id |-> nextId.marque,
                client |-> construct_client(u, "marque", posted_client, NoId),
                nom_marque |-> nom]
      obj == save_model(u, built, FALSE)
  IN /\ Idle
     /\ nextId.marque <= MaxMarques
     /\ IF obj.client = NoId \/ ~MarqueUnique(marques \cup {obj})
          THEN /\ resp' = [posted_client |-> posted_client]
                            @@ IntegrityError("add", "marque", u, NoId)
               /\ UNCHANGED <<marques, nextId>>
          ELSE /\ marques' = marques \cup {obj}
               /\ nextId' = [nextId EXCEPT !.marque = @ + 1]
               /\ resp' = [posted_client |-> posted_client]
                            @@ Saved("add", "marque", u, obj.id)
     /\ UNCHANGED <<clients, categories, articles>>

AdminChangeMarque(u, id, posted_client, nom) ==
  /\ Idle
  /\ id \in Ids(marques)
  /\ IF id \notin Ids(admin_get_queryset(u, marques))
       THEN /\ resp' = DoesNotExist("change", "marque", u, id)
            /\ UNCHANGED marques
       ELSE LET cur == Row(marques, id)
                built == [cur EXCEPT
                            !.client = construct_client(u, "marque", posted_client, @),
                            !.nom_marque = nom]
                obj == save_model(u, built, TRUE)
                others == {r \in marques : r.id # id}
            IN IF ~MarqueUnique(others \cup {obj})
                 THEN /\ resp' = [posted_client |-> posted_client]
                                   @@ IntegrityError("change", "marque", u, id)
                      /\ UNCHANGED marques
                 ELSE /\ marques' = others \cup {obj}
                      /\ resp' = [posted_client |-> posted_client]
                                   @@ Saved("change", "marque", u, id)
  /\ UNCHANGED <<clients, categories, articles, nextId>>

AdminDeleteMarque(u, id) ==
  /\ Idle
  /\ id \in Ids(marques)
  /\ IF id \notin Ids(admin_get_queryset(u, marques))
       THEN /\ resp' = DoesNotExist("delete", "marque", u, id)
            /\ UNCHANGED <<marques, articles>>
       ELSE /\ marques' = {r \in marques : r.id # id}
            /\ articles' = CascadeArticles(articles, {id}, {})
            /\ resp' = Saved("delete", "marque", u, id)
  /\ UNCHANGED <<clients, categories, nextId>>

\* ModelChoiceField validation: the posted brand is one of the picker's
\* options, the posted category is empty or one of the picker's options
ArticleFormValid(u, marque, categorie) ==
  /\ marque \in Ids(formfield_for_foreignkey("marque", u))
  /\ categorie = NoId \/ categorie \in Ids(formfield_for_foreignkey("categorie", u))

\* date_ajout (auto_now_add) is a logical time: later creations are later
AdminAddArticle(u, posted_client, marque, categorie, modele, prix) ==
  LET built == [id |-> nextId.article,
                client |-> construct_client(u, "article", posted_client, NoId),
                marque |-> marque, categorie |-> categorie, modele |-> modele,
                prix |-> prix, date_ajout |-> nextId.article]
      obj == save_model(u, built, FALSE)
  IN /\ Idle
     /\ nextId.article <= MaxArticles
     /\ IF ~ArticleFormValid(u, marque, categorie)
          THEN /\ resp' = [posted_client |-> posted_client]
                            @@ FormErrors("add", "article", u, NoId)
               /\ UNCHANGED <<articles, nextId>>
          ELSE IF obj.client = NoId
            THEN /\ resp' = [posted_client |-> posted_client]
                              @@ IntegrityError("add", "article", u, NoId)
                 /\ UNCHANGED <<articles, nextId>>
            ELSE /\ articles' = articles \cup {obj}
                 /\ nextId' = [nextId EXCEPT !.article = @ + 1]
                 /\ resp' = [posted_client |-> posted_client]
                              @@ Saved("add", "article", u, obj.id)
     /\ UNCHANGED <<clients, categories, marques>>

AdminChangeArticle(u, id, posted_client, marque, categorie, modele, prix) ==
  /\ Idle
  /\ id \in Ids(articles)
  /\ IF id \notin Ids(admin_get_queryset(u, articles))
       THEN /\ resp' = DoesNotExist("change", "article", u, id)
            /\ UNCHANGED articles
       ELSE IF ~ArticleFormValid(u, marque, categorie)
         THEN /\ resp' = [posted_client |-> posted_client]
                           @@ FormErrors("change", "article", u, id)
              /\ UNCHANGED articles
         ELSE LET cur == Row(articles, id)
                  built == [cur EXCEPT
                              !.client = construct_client(u, "article", posted_client, @),
                              !.marque = marque, !.categorie = categorie,
                              !.modele = modele, !.prix = prix]
                  obj == save_model(u, built, TRUE)
              IN /\ articles' = {r \in articles : r.id # id} \cup {obj}
                 /\ resp' = [posted_client |-> posted_client]
                              @@ Saved("change", "article", u, id)
  /\ UNCHANGED <<clients, categories, marques, nextId>>

AdminDeleteArticle(u, id) ==
  /\ Idle
  /\ id \in Ids(articles)
  /\ IF id \notin Ids(admin_get_queryset(u, articles))
       THEN /\ resp' = DoesNotExist("delete", "article", u, id)
            /\ UNCHANGED articles
       ELSE /\ articles' = {r \in articles : r.id # id}
            /\ resp' = Saved("delete", "article", u, id)
  /\ UNCHANGED <<clients, categories, marques, nextId>>

---------------------------------------------------------------------------
(* views.py: ClientFilterMixin, the tenant resolver of the public API *)

Falsy(text) == text = None \/ text = <<>>

\* the origin the resolver works with: the Origin header, else scheme://netloc
\* of the Referer header, else nothing
request_origin(origin_h, referer_h) ==
  IF ~Falsy(origin_h) THEN origin_h
  ELSE IF ~Falsy(referer_h)
    THEN url_scheme(referer_h) \o <<":", "/", "/">> \o url_netloc(referer_h)
    ELSE <<>>

\* urlparse(referer) raises, and nothing in the view catches it
resolution_raises(origin_h, referer_h) ==
  Falsy(origin_h) /\ ~Falsy(referer_h) /\ urlparse_raises(referer_h)

\* the lookup without the actif=True condition
get_client_from_request_any_actif(origin_h, referer_h) ==
  LET origin == request_origin(origin_h, referer_h)
      found == {c \in clients : c.domaine = rstrip_slash(origin)}
  IN IF origin = <<>> \/ found = {} THEN NoId ELSE (CHOOSE c \in found : TRUE).id

\* the lookup without origin.rstrip('/')
get_client_from_request_no_rstrip(origin_h, referer_h) ==
  LET origin == request_origin(origin_h, referer_h)
      found == {c \in clients : c.domaine = origin /\ c.actif}
  IN IF origin = <<>> \/ found = {} THEN NoId ELSE (CHOOSE c \in found : TRUE).id

\* Client.objects.get(domaine=origin, actif=True), NoId on DoesNotExist
get_client_from_request(origin_h, referer_h) ==
  LET origin == request_origin(origin_h, referer_h)
  IN IF origin = <<>> THEN NoId
     ELSE LET cleaned == rstrip_slash(origin)
              found == {c \in clients : c.domaine = cleaned /\ c.actif}
          IN IF found = {} THEN NoId ELSE (CHOOSE c \in found : TRUE).id

\* scoping that returns the queryset itself when no tenant resolves
filter_queryset_by_client_open(origin_h, referer_h, rows) ==
  LET client == get_client_from_request(origin_h, referer_h)
  IN IF client = NoId THEN rows ELSE {r \in rows : r.client = client}

filter_queryset_by_client(origin_h, referer_h, rows) ==
  LET client == get_client_from_request(origin_h, referer_h)
  IN IF client = NoId THEN {} ELSE {r \in rows : r.client = client}

---------------------------------------------------------------------------
(* views.py: lookups across the marque and categorie joins *)

marque_nom(a) == Row(marques, a.marque).nom_marque

marque_iexact(a, term) == iexact(marque_nom(a), term)
marque_icontains(a, term) == icontains(marque_nom(a), term)

\* an article without a category matches no categorie__nom lookup
categorie_icontains(a, term) ==
  a.categorie # NoId /\ icontains(Row(categories, a.categorie).nom, term)
categorie_iexact(a, term) ==
  a.categorie # NoId /\ iexact(Row(categories, a.categorie).nom, term)

\* DecimalField.to_python raises ValidationError on a bound that is no number
prix_raises(ps) == ps.prix_min = BadPrix \/ ps.prix_max = BadPrix

\* apiArticle.get_queryset with prix_max as an exclusive bound
apiArticle_get_queryset_exclusive(origin_h, referer_h, ps) ==
  {a \in filter_queryset_by_client(origin_h, referer_h, articles) :
     /\ Falsy(ps.marque) \/ marque_iexact(a, ps.marque)
     /\ Falsy(ps.categorie) \/ categorie_icontains(a, ps.categorie)
     /\ ps.prix_min = NoPrix \/ a.prix >= ps.prix_min
     /\ ps.prix_max = NoPrix \/ a.prix < ps.prix_max}

\* apiArticle.get_queryset, when nothing raises: the tenant's articles,
\* then one filter for each parameter that is supplied and not empty
apiArticle_get_queryset(origin_h, referer_h, ps) ==
  {a \in filter_queryset_by_client(origin_h, referer_h, articles) :
     /\ Falsy(ps.marque) \/ marque_iexact(a, ps.marque)
     /\ Falsy(ps.categorie) \/ categorie_icontains(a, ps.categorie)
     /\ ps.prix_min = NoPrix \/ a.prix >= ps.prix_min
     /\ ps.prix_max = NoPrix \/ a.prix <= ps.prix_max}

\* the term of filters.SearchFilter, for a search made of one term
search_term(search) == IF search = None THEN <<>> ELSE strip(search)

\* filters.SearchFilter over search_fields
search_filter(rows, search) ==
  {a \in rows : \/ search_term(search) = <<>>
                \/ icontains(a.modele, search_term(search))
                \/ marque_icontains(a, search_term(search))
                \/ categorie_icontains(a, search_term(search))}

\* filters.OrderingFilter: a term outside ordering_fields falls back to the
\* default ordering ['-date_ajout'], which is also Article.Meta.ordering
ordering_fields == {"prix", "-prix", "date_ajout", "-date_ajout", "modele", "-modele"}

order_key(a, ordering) == IF ordering \in {"prix", "-prix"} THEN a.prix ELSE a.date_ajout

order_descending(ordering) == ordering \in {"-prix", "-date_ajout", "-modele"}

\* the rows that may come first under an ordering: those of extremal key;
\* the order of text is the database's collation, so under an ordering by
\* modele any row may come first
order_first(rows, ord) ==
  {a \in rows :
     \/ ord \in {"modele", "-modele"}
     \/ \A b \in rows : IF order_descending(ord)
                          THEN order_key(a, ord) >= order_key(b, ord)
                          ELSE order_key(a, ord) <= order_key(b, ord)}

RECURSIVE order_by(_, _)
order_by(rows, ord) ==
  IF rows = {} THEN {<<>>}
  ELSE UNION {{<<a>> \o s : s \in order_by(rows \ {a}, ord)} : a \in order_first(rows, ord)}

\* the orders the database may return the rows in: sorted by the key, rows of
\* equal key in any order
Orderings(rows, ordering) ==
  order_by(rows, IF ordering \in ordering_fields THEN ordering ELSE "-date_ajout")

\* ArticlePagination
page_size == 12
max_page_size == 50

get_page_size(param) ==
  IF param > 0 THEN (IF param > max_page_size THEN max_page_size ELSE param)
  ELSE page_size

Slice(s, n) == SubSeq(s, 1, IF n < Len(s) THEN n ELSE Len(s))

\* the first page of an ordered result
paginate_queryset(s, ps) == Slice(s, get_page_size(ps.page_size))

SeqRows(s) == {s[i] : i \in 1..Len(s)}
SeqIds(s) == [i \in 1..Len(s) |-> s[i].id]

ApiResp(op, origin_h, referer_h, ps, status) ==
  [surface |-> "api", op |-> op, origin |-> origin_h, referer |-> referer_h,
   params |-> ps, status |-> status]

\* an exception no handler catches
ServerError(op, origin_h, referer_h, ps) ==
  [body |-> {"server_error"}] @@ ApiResp(op, origin_h, referer_h, ps, 500) @@ NoResp

\* a list of articles, resolved tenant recorded
ArticlesOk(op, origin_h, referer_h, ps, s) ==
  [resolved |-> TRUE, client |-> get_client_from_request(origin_h, referer_h),
   rows |-> SeqRows(s), order |-> SeqIds(s), body |-> {"results"}]
    @@ ApiResp(op, origin_h, referer_h, ps, 200) @@ NoResp

Unchanged_db == UNCHANGED <<clients, categories, marques, articles, nextId>>

---------------------------------------------------------------------------
(* views.py: the read endpoints *)

\* GET /articles/
ApiArticlesList(origin_h, referer_h, ps) ==
  /\ Idle
  /\ IF resolution_raises(origin_h, referer_h) \/ prix_raises(ps)
       THEN resp' = ServerError("articles", origin_h, referer_h, ps)
       ELSE \E s \in Orderings(search_filter(apiArticle_get_queryset(origin_h, referer_h, ps),
                                             ps.search), ps.ordering) :
              resp' = ArticlesOk("articles", origin_h, referer_h, ps,
                                 paginate_queryset(s, ps))
  /\ Unchanged_db

featured_limit == 8

\* GET /articles/featured/
ApiArticlesFeatured(origin_h, referer_h, ps) ==
  /\ Idle
  /\ IF resolution_raises(origin_h, referer_h) \/ prix_raises(ps)
       THEN resp' = ServerError("featured", origin_h, referer_h, ps)
       ELSE \E s \in Orderings(apiArticle_get_queryset(origin_h, referer_h, ps),
                               "-date_ajout") :
              resp' = ArticlesOk("featured", origin_h, referer_h, ps,
                                 Slice(s, featured_limit))
  /\ Unchanged_db

all_words == {<<"a", "l", "l">>, <<"t", "o", "u", "t">>,
              <<"c", "a", "t", "a", "l", "o", "g", "u", "e">>}

\* Filtreur.get: the tenant's articles, narrowed by category unless the
\* parameter is absent or one of the catch-all words
Filtreur_queryset(origin_h, referer_h, ps) ==
  LET categorie_param == IF ps.categorie = None THEN <<"a", "l", "l">> ELSE ps.categorie
      scoped == filter_queryset_by_client(origin_h, referer_h, articles)
      categorie_clean == replace_underscore(categorie_param)
  IN IF lower(categorie_param) \notin all_words
       THEN {a \in scoped : \/ categorie_icontains(a, categorie_clean)
                            \/ categorie_iexact(a, categorie_clean)}
       ELSE scoped

\* GET /filtrer/
ApiFiltrer(origin_h, referer_h, ps) ==
  /\ Idle
  /\ IF resolution_raises(origin_h, referer_h)
       THEN resp' = ServerError("filtrer", origin_h, referer_h, ps)
       ELSE \E s \in Orderings(Filtreur_queryset(origin_h, referer_h, ps), "-date_ajout") :
              resp' = ArticlesOk("filtrer", origin_h, referer_h, ps,
                                 paginate_queryset(s, ps))
  /\ Unchanged_db

\* the term read without strip()
recherche_query_unstripped(ps) == IF ps.q = None THEN <<>> ELSE ps.q

\* request.query_params.get('q', '').strip()
recherche_query(ps) == strip(IF ps.q = None THEN <<>> ELSE ps.q)

\* the multi-field search with __contains lookups, which compare case
Recherche_found_case_sensitive(query) ==
  {a \in articles : \/ Contains(query, a.modele)
                    \/ Contains(query, marque_nom(a))
                    \/ (a.categorie # NoId /\ Contains(query, Row(categories, a.categorie).nom))}

\* the multi-field search of RechercheArticles.get, with distinct()
Recherche_found(query) ==
  {a \in articles : \/ icontains(a.modele, query)
                    \/ marque_icontains(a, query)
                    \/ categorie_icontains(a, query)}

\* the search without the call of filter_queryset_by_client
Recherche_queryset_unscoped(origin_h, referer_h, ps) ==
  {a \in Recherche_found(recherche_query(ps)) :
     /\ Falsy(ps.marque) \/ marque_iexact(a, ps.marque)
     /\ ps.prix_max = NoPrix \/ a.prix <= ps.prix_max}

\* RechercheArticles.get after the check of q: search, tenant scoping, then
\* the marque and prix_max filters
Recherche_queryset(origin_h, referer_h, ps) ==
  {a \in filter_queryset_by_client(origin_h, referer_h,
                                   Recherche_found(recherche_query(ps))) :
     /\ Falsy(ps.marque) \/ marque_iexact(a, ps.marque)
     /\ ps.prix_max = NoPrix \/ a.prix <= ps.prix_max}

\* GET /recherche/
ApiRecherche(origin_h, referer_h, ps) ==
  /\ Idle
  /\ IF recherche_query(ps) = <<>>
       THEN resp' = [body |-> {"error", "example"}]
                      @@ ApiResp("recherche", origin_h, referer_h, ps, 400) @@ NoResp
       ELSE IF resolution_raises(origin_h, referer_h) \/ ps.prix_max = BadPrix
         THEN resp' = ServerError("recherche", origin_h, referer_h, ps)
         ELSE \E s \in Orderings(Recherche_queryset(origin_h, referer_h, ps),
                                 "-date_ajout") :
                resp' = ArticlesOk("recherche", origin_h, referer_h, ps,
                                   paginate_queryset(s, ps))
  /\ Unchanged_db

\* GET /categories/ (apiCategorie) and GET /marques/ (apiMarque)
ApiScopedList(op, rows, origin_h, referer_h, ps) ==
  /\ Idle
  /\ IF resolution_raises(origin_h, referer_h)
       THEN resp' = ServerError(op, origin_h, referer_h, ps)
       ELSE resp' = [resolved |-> TRUE,
                     client |-> get_client_from_request(origin_h, referer_h),
                     rows |-> filter_queryset_by_client(origin_h, referer_h, rows),
                     body |-> {"results"}]
                      @@ ApiResp(op, origin_h, referer_h, ps, 200) @@ NoResp
  /\ Unchanged_db

ApiCategoriesList(origin_h, referer_h, ps) ==
  ApiScopedList("categories", categories, origin_h, referer_h, ps)

ApiMarquesList(origin_h, referer_h, ps) ==
  ApiScopedList("marques", marques, origin_h, referer_h, ps)

---------------------------------------------------------------------------
(* views.py and serializer.py: the write methods of the three ModelViewSets.
   The serializers carry no client field, and on Article the marque and
   categorie fields are read-only. *)

\* the rows get_object() looks the primary key up in
api_object_queryset(model, origin_h, referer_h, ps) ==
  CASE model = "categorie" -> filter_queryset_by_client(origin_h, referer_h, categories)
    [] model = "marque" -> filter_queryset_by_client(origin_h, referer_h, marques)
    [] model = "article" ->
         search_filter(apiArticle_get_queryset(origin_h, referer_h, ps), ps.search)

api_queryset_raises(model, origin_h, referer_h, ps) ==
  resolution_raises(origin_h, referer_h) \/ (model = "article" /\ prix_raises(ps))

ApiWriteResp(op, model, origin_h, referer_h, ps, id, status, body) ==
  [model |-> model, target |-> id, body |-> body]
    @@ ApiResp(op, origin_h, referer_h, ps, status) @@ NoResp

\* POST: serializer.save() inserts a row without client, which the NOT NULL
\* constraint rejects
ApiCreate(model, origin_h, referer_h, ps) ==
  /\ Idle
  /\ resp' = ApiWriteResp("create", model, origin_h, referer_h, ps, NoId, 500,
                          {"integrity_error"})
  /\ Unchanged_db

\* the row after PUT or PATCH wrote the serializer's writable fields
api_updated(model, cur, nom, prix) ==
  CASE model = "categorie" -> [cur EXCEPT !.nom = nom]
    [] model = "marque" -> [cur EXCEPT !.nom_marque = nom]
    [] model = "article" -> [cur EXCEPT !.modele = nom, !.prix = prix]

\* PUT and PATCH /<model>/<id>/
ApiUpdate(model, origin_h, referer_h, ps, id, nom, prix) ==
  /\ Idle
  /\ id \in Ids(Table(model))
  /\ IF api_queryset_raises(model, origin_h, referer_h, ps)
       THEN /\ resp' = ApiWriteResp("update", model, origin_h, referer_h, ps, id, 500,
                                    {"server_error"})
            /\ UNCHANGED <<categories, marques, articles>>
       ELSE IF id \notin Ids(api_object_queryset(model, origin_h, referer_h, ps))
         THEN /\ resp' = ApiWriteResp("update", model, origin_h, referer_h, ps, id, 404,
                                      {"not_found"})
              /\ UNCHANGED <<categories, marques, articles>>
         ELSE LET obj == api_updated(model, Row(Table(model), id), nom, prix)
                  others == {r \in Table(model) : r.id # id}
                  ok == CASE model = "categorie" -> CategorieUnique(others \cup {obj})
                          [] model = "marque" -> MarqueUnique(others \cup {obj})
                          [] model = "article" -> TRUE
              IN IF ~ok
                   THEN /\ resp' = ApiWriteResp("update", model, origin_h, referer_h, ps,
                                                id, 500, {"integrity_error"})
                        /\ UNCHANGED <<categories, marques, articles>>
                   ELSE /\ resp' = [rows |-> {obj}]
                                     @@ ApiWriteResp("update", model, origin_h, referer_h,
                                                     ps, id, 200, {"saved"})
                        /\ categories' =
                             IF model = "categorie" THEN others \cup {obj} ELSE categories
                        /\ marques' = IF model = "marque" THEN others \cup {obj} ELSE marques
                        /\ articles' =
                             IF model = "article" THEN others \cup {obj} ELSE articles
  /\ UNCHANGED <<clients, nextId>>

\* DELETE /<model>/<id>/
ApiDestroy(model, origin_h, referer_h, ps, id) ==
  /\ Idle
  /\ id \in Ids(Table(model))
  /\ IF api_queryset_raises(model, origin_h, referer_h, ps)
       THEN /\ resp' = ApiWriteResp("destroy", model, origin_h, referer_h, ps, id, 500,
                                    {"server_error"})
            /\ UNCHANGED <<categories, marques, articles>>
       ELSE IF id \notin Ids(api_object_queryset(model, origin_h, referer_h, ps))
         THEN /\ resp' = ApiWriteResp("destroy", model, origin_h, referer_h, ps, id, 404,
                                      {"not_found"})
              /\ UNCHANGED <<categories, marques, articles>>
         ELSE /\ resp' = ApiWriteResp("destroy", model, origin_h, referer_h, ps, id, 204,
                                      {"deleted"})
              /\ categories' = IF model = "categorie"
                                 THEN {r \in categories : r.id # id} ELSE categories
              /\ marques' = IF model = "marque"
                              THEN {r \in marques : r.id # id} ELSE marques
              /\ articles' =
                   CASE model = "categorie" -> CascadeArticles(articles, {}, {id})
                     [] model = "marque" -> CascadeArticles(articles, {id}, {})
                     [] model = "article" -> {r \in articles : r.id # id}
  /\ UNCHANGED <<clients, nextId>>

\* GET /<model>/<id>/
ApiRetrieve(model, origin_h, referer_h, ps, id) ==
  /\ Idle
  /\ id \in Ids(Table(model))
  /\ IF api_queryset_raises(model, origin_h, referer_h, ps)
       THEN resp' = ApiWriteResp("retrieve", model, origin_h, referer_h, ps, id, 500,
                                 {"server_error"})
       ELSE IF id \notin Ids(api_object_queryset(model, origin_h, referer_h, ps))
         THEN resp' = ApiWriteResp("retrieve", model, origin_h, referer_h, ps, id, 404,
                                   {"not_found"})
         ELSE resp' = [rows |-> {Row(Table(model), id)}]
                        @@ ApiWriteResp("retrieve", model, origin_h, referer_h, ps, id,
                                        200, {"detail"})
  /\ Unchanged_db

---------------------------------------------------------------------------
(* The catalogue's life: every admin operation and every API write *)

\* what a caller may post as the client of a row: nothing, or a tenant's id
ClientIdInputs == {NoId, MaxClients}

AdminNext ==
  \/ \E u \in Users : ClientAdminView(u)
  \/ \E u \in Users, d \in Domaines, a \in BOOLEAN, au \in Staff :
       ClientAdminAdd(u, d, a, au)
  \/ \E u \in Users, id \in Ids(clients), d \in Domaines, a \in BOOLEAN, au \in Staff :
       ClientAdminChange(u, id, d, a, au)
  \/ \E u \in Users, id \in Ids(clients) : ClientAdminDelete(u, id)
  \/ \E u \in Users, m \in Models : AdminChangelist(u, m)
  \/ \E u \in Users : AdminArticleForm(u)
  \/ \E u \in Users, pc \in ClientIdInputs, n \in Noms : AdminAddCategorie(u, pc, n)
  \/ \E u \in Users, id \in Ids(categories), pc \in ClientIdInputs, n \in Noms :
       AdminChangeCategorie(u, id, pc, n)
  \/ \E u \in Users, id \in Ids(categories) : AdminDeleteCategorie(u, id)
  \/ \E u \in Users, pc \in ClientIdInputs, n \in Noms : AdminAddMarque(u, pc, n)
  \/ \E u \in Users, id \in Ids(marques), pc \in ClientIdInputs, n \in Noms :
       AdminChangeMarque(u, id, pc, n)
  \/ \E u \in Users, id \in Ids(marques) : AdminDeleteMarque(u, id)
  \/ \E u \in Users, pc \in ClientIdInputs, m \in 1..MaxMarques,
        c \in 0..MaxCategories, n \in Noms, p \in Prix :
       AdminAddArticle(u, pc, m, c, n, p)
  \/ \E u \in Users, id \in Ids(articles), pc \in ClientIdInputs,
        m \in 1..MaxMarques, c \in 0..MaxCategories, n \in Noms, p \in Prix :
       AdminChangeArticle(u, id, pc, m, c, n, p)
  \/ \E u \in Users, id \in Ids(articles) : AdminDeleteArticle(u, id)

\* origins the API is called from in the catalogue's life
PlainOrigins == {None, dA, dB}

ApiWriteNext ==
  \/ \E o \in PlainOrigins, m \in Models : ApiCreate(m, o, None, NoParams)
  \/ \E o \in PlainOrigins, m \in Models, id \in 1..MaxMarques, n \in Noms, p \in Prix :
       ApiUpdate(m, o, None, NoParams, id, n, p)
  \/ \E o \in PlainOrigins, m \in Models, id \in 1..MaxMarques :
       ApiDestroy(m, o, None, NoParams, id)

\* the response is sent and forgotten
Deliver ==
  /\ ~Idle
  /\ resp' = NoResp
  /\ Unchanged_db

Next ==
  \/ Idle /\ AdminNext
  \/ Idle /\ ApiWriteNext
  \/ Deliver

Spec == Init /\ [][Next]_vars

---------------------------------------------------------------------------
(* The public API read by callers of every origin: a catalogue of two
   tenants as their admins built it, the superuser deactivating and
   reactivating the tenants, and the six read endpoints *)

ApiNomAb == <<"A", "b">>
ApiNomB == <<"b">>

\* values a superuser typed into the first tenant's domaine: a URLField keeps
\* a trailing slash as typed
ApiDomaines == {dA, dA \o <<"/">>}

\* the third article carries a brand of its own tenant or, after a
\* superuser's edit, the other tenant's brand
InitApi ==
  /\ \E d \in ApiDomaines :
       clients = {[id |-> 1, domaine |-> d, actif |-> TRUE, utilisateur_admin |-> "alice"],
                  [id |-> 2, domaine |-> dB, actif |-> TRUE, utilisateur_admin |-> "bob"]}
  /\ categories = {[id |-> 1, client |-> 1, nom |-> ApiNomAb],
                   [id |-> 2, client |-> 2, nom |-> ApiNomB]}
  /\ marques = {[id |-> 1, client |-> 1, nom_marque |-> ApiNomAb],
                [id |-> 2, client |-> 2, nom_marque |-> <<"a", "b">>]}
  /\ \E m \in {1, 2} :
       articles = {[id |-> 1, client |-> 1, marque |-> 1, categorie |-> 1,
                    modele |-> ApiNomB, prix |-> 1, date_ajout |-> 1],
                   [id |-> 2, client |-> 2, marque |-> 2, categorie |-> 2,
                    modele |-> ApiNomAb, prix |-> 2, date_ajout |-> 2],
                   [id |-> 3, client |-> 1, marque |-> m, categorie |-> NoId,
                    modele |-> ApiNomAb, prix |-> 2, date_ajout |-> 3]}
  /\ nextId = [client |-> 3, categorie |-> 3, marque |-> 3, article |-> 4]
  /\ resp = NoResp

MarqueParams == {None, <<"A", "B">>}

ArticleParams ==
  [marque : MarqueParams \cup {<<>>}, categorie : {None, <<>>, <<"b">>},
   prix_min : {NoPrix, BadPrix, 2},
   prix_max : {NoPrix, 1}, q : {None}, search : {None, <<"a">>},
   ordering : {"", "prix"}, page_size : {0, 1}]

FeaturedParams ==
  [marque : MarqueParams, categorie : {None, <<"b">>}, prix_min : {NoPrix, BadPrix, 2},
   prix_max : {NoPrix, 1}, q : {None}, search : {None}, ordering : {""},
   page_size : {0}]

FiltrerParams ==
  [marque : {None}, categorie : {None, <<>>, <<"b">>, <<"A", "L", "L">>, <<"a", "_">>},
   prix_min : {NoPrix}, prix_max : {NoPrix}, q : {None}, search : {None},
   ordering : {""}, page_size : {0, 1}]

RechercheParams ==
  [marque : MarqueParams, categorie : {None}, prix_min : {NoPrix},
   prix_max : {NoPrix, BadPrix, 1},
   q : {None, <<>>, <<" ">>, <<" ", "B", " ">>, <<"a">>}, search : {None},
   ordering : {""}, page_size : {0, 1}]

ApiReadNext ==
  \/ \E o \in OriginHeaders, r \in RefererHeaders, ps \in ArticleParams :
       ApiArticlesList(o, r, ps)
  \/ \E o \in OriginHeaders, r \in RefererHeaders, ps \in FeaturedParams :
       ApiArticlesFeatured(o, r, ps)
  \/ \E o \in OriginHeaders, r \in RefererHeaders, ps \in FiltrerParams :
       ApiFiltrer(o, r, ps)
  \/ \E o \in OriginHeaders, r \in RefererHeaders, ps \in RechercheParams :
       ApiRecherche(o, r, ps)
  \/ \E o \in OriginHeaders, r \in RefererHeaders : ApiCategoriesList(o, r, NoParams)
  \/ \E o \in OriginHeaders, r \in RefererHeaders : ApiMarquesList(o, r, NoParams)

NextApi ==
  \/ Idle /\ ApiReadNext
  \/ \E id \in Ids(clients), a \in BOOLEAN :
       ClientAdminChange("root", id, Row(clients, id).domaine, a,
                         Row(clients, id).utilisateur_admin)
  \/ Deliver

SpecApi == InitApi /\ [][NextApi]_vars

---------------------------------------------------------------------------
(* The object endpoints of the three ViewSets over the two-tenant catalogue,
   called from any origin, with a Referer or a price parameter that raises *)

WriteReferers == {None, <<"https", ":", "/", "/", "[">>}

WriteParams == {NoParams, [NoParams EXCEPT !.prix_min = BadPrix]}

RowIds == 1..3

NextWrites ==
  \/ Idle /\ \E o \in PlainOrigins, r \in WriteReferers, ps \in WriteParams, m \in Models :
               ApiCreate(m, o, r, ps)
  \/ Idle /\ \E o \in PlainOrigins, r \in WriteReferers, ps \in WriteParams, m \in Models,
                id \in RowIds : ApiRetrieve(m, o, r, ps, id)
  \/ Idle /\ \E o \in PlainOrigins, r \in WriteReferers, ps \in WriteParams, m \in Models,
                id \in RowIds, n \in Noms, p \in Prix : ApiUpdate(m, o, r, ps, id, n, p)
  \/ Idle /\ \E o \in PlainOrigins, r \in WriteReferers, ps \in WriteParams, m \in Models,
                id \in RowIds : ApiDestroy(m, o, r, ps, id)
  \/ Deliver

SpecWrites == InitApi /\ [][NextWrites]_vars

---------------------------------------------------------------------------
(* The featured shortcut over a long catalogue: the first tenant owns up to
   MaxCatalogue articles, added one after the other, the second tenant owns
   the article added last *)

MaxCatalogue == 10

\* the i-th article of the first tenant: categories and prices alternate
CatalogueArticle(i) ==
  [id |-> i, client |-> 1, marque |-> 1,
   categorie |-> IF i % 2 = 0 THEN 1 ELSE NoId,
   modele |-> ApiNomB, prix |-> 1 + (i % 2), date_ajout |-> i]

InitFeatured ==
  /\ clients = {[id |-> 1, domaine |-> dA, actif |-> TRUE, utilisateur_admin |-> "alice"],
                [id |-> 2, domaine |-> dB, actif |-> TRUE, utilisateur_admin |-> "bob"]}
  /\ categories = {[id |-> 1, client |-> 1, nom |-> ApiNomAb],
                   [id |-> 2, client |-> 2, nom |-> ApiNomB]}
  /\ marques = {[id |-> 1, client |-> 1, nom_marque |-> ApiNomAb],
                [id |-> 2, client |-> 2, nom_marque |-> <<"a", "b">>]}
  /\ \E n \in 0..MaxCatalogue :
       /\ articles = {CatalogueArticle(i) : i \in 1..n} \cup
                       {[id |-> n + 1, client |-> 2, marque |-> 2, categorie |-> 2,
                         modele |-> ApiNomAb, prix |-> 2, date_ajout |-> n + 1]}
       /\ nextId = [client |-> 3, categorie |-> 3, marque |-> 3, article |-> n + 2]
  /\ resp = NoResp

NextFeatured ==
  \/ Idle /\ \E o \in OriginHeaders, r \in RefererHeaders, ps \in FeaturedParams :
               ApiArticlesFeatured(o, r, ps)
  \/ \E id \in Ids(clients), a \in BOOLEAN :
       ClientAdminChange("root", id, Row(clients, id).domaine, a,
                         Row(clients, id).utilisateur_admin)
  \/ Deliver

SpecFeatured == InitFeatured /\ [][NextFeatured]_vars

---------------------------------------------------------------------------
(* models.py: Article.save and the derivation of the stored images.
   A file is its name (a stem of name atoms and an extension), its pixel
   size, its mode, whether its data decodes, how many times this code has
   encoded it as JPEG, and the size of the white background it was pasted
   on, if any. *)

\* an empty FieldFile (no name) or None
NoFile ==
  [name |-> <<>>, width |-> 0, height |-> 0, mode |-> "", data |-> "",
   encodings |-> 0, background |-> <<>>]

\* os.path.splitext(name)[0]
splitext_stem(name) == SubSeq(name, 1, Len(name) - 1)

Abs(n) == IF n < 0 THEN -n ELSE n

\* math.ceil(a / b) for positive integers
CeilDiv(a, b) == (a \div b) + (IF a % b = 0 THEN 0 ELSE 1)

\* round_aspect of Image.thumbnail for the width, under a box of height y:
\* floor or ceil of y * w / h, the one whose ratio to y is nearer to w / h,
\* the floor on a tie, and 1 at least
round_aspect_width(w, h, y) ==
  LET lo == (y * w) \div h
      hi == CeilDiv(y * w, h)
      n == IF Abs(w * y - lo * h) <= Abs(w * y - hi * h) THEN lo ELSE hi
  IN IF n < 1 THEN 1 ELSE n

\* round_aspect for the height, under a box of width x: the key of 0 is 0
round_aspect_height(w, h, x) ==
  LET lo == (x * h) \div w
      hi == CeilDiv(x * h, w)
      n == IF lo = 0 THEN 0
           ELSE IF Abs(w * lo - x * h) * hi <= Abs(w * hi - x * h) * lo THEN lo ELSE hi
  IN IF n < 1 THEN 1 ELSE n

\* Image.thumbnail with the check that keeps a small image as it is left out
Image_thumbnail_always(w, h, x, y) ==
  IF x * h >= y * w
    THEN <<round_aspect_width(w, h, y), y>>
    ELSE <<x, round_aspect_height(w, h, x)>>

\* PIL Image.thumbnail((x, y)): the size of the image afterwards
Image_thumbnail(w, h, x, y) ==
  IF x >= w /\ y >= h THEN <<w, h>>
  ELSE IF x * h >= y * w
    THEN <<round_aspect_width(w, h, y), y>>
    ELSE <<x, round_aspect_height(w, h, x)>>

\* modes img.save(format='JPEG') raises on, once RGBA, LA and P are flattened
jpeg_modes == {"RGB", "L", "CMYK"}

alpha_modes == {"RGBA", "LA", "P"}

\* the mode after the paste on Image.new('RGB', img.size, (255, 255, 255))
flattened_mode(mode) == IF mode \in alpha_modes THEN "RGB" ELSE mode

\* Image.open, thumbnail or save raises: the data does not decode, or the
\* mode cannot be written as JPEG
derivation_raises(f) == f.data # "ok" \/ flattened_mode(f.mode) \notin jpeg_modes

\* the file both derivations build when nothing raises
derived(f, size, suffix) ==
  LET dims == Image_thumbnail(f.width, f.height, size[1], size[2])
  IN [name |-> splitext_stem(f.name) \o <<suffix, ".jpg">>,
      width |-> dims[1], height |-> dims[2],
      mode |-> flattened_mode(f.mode), data |-> "ok",
      encodings |-> f.encodings + 1,
      background |-> IF f.mode \in alpha_modes THEN <<f.width, f.height>> ELSE <<>>]

\* optimize_image with a fallback to no image
optimize_image_drop(image_field, max_size) ==
  IF derivation_raises(image_field) THEN NoFile
  ELSE derived(image_field, max_size, "_optimized")

\* Article.optimize_image: on any exception the field as it was given
optimize_image(image_field, max_size) ==
  IF derivation_raises(image_field) THEN image_field
  ELSE derived(image_field, max_size, "_optimized")

\* Article.create_thumbnail: on any exception None
create_thumbnail(image_field, size) ==
  IF derivation_raises(image_field) THEN NoFile
  ELSE derived(image_field, size, "_thumb")

\* max_size=(1200, 1200) of the optimized image
optimized_max == 1200

\* size=(300, 300) of the thumbnail
thumbnail_max == 300

\* one slot of Article.save: a truthy field with a file is optimized and the
\* thumbnail is made from the optimized field
save_image(value) ==
  IF value.name # <<>> THEN optimize_image(value, <<optimized_max, optimized_max>>)
  ELSE value

save_thumbnail(value, thumbnail) ==
  IF value.name # <<>>
    THEN create_thumbnail(save_image(value), <<thumbnail_max, thumbnail_max>>)
    ELSE thumbnail

\* Article.save: the three slots one after the other, then super().save()
Article_save(a) ==
  [a EXCEPT !.image = save_image(a.image),
            !.image_thumbnail = save_thumbnail(a.image, a.image_thumbnail),
            !.image1 = save_image(a.image1),
            !.image1_thumbnail = save_thumbnail(a.image1, a.image1_thumbnail),
            !.image2 = save_image(a.image2),
            !.image2_thumbnail = save_thumbnail(a.image2, a.image2_thumbnail)]

---------------------------------------------------------------------------
(* The image slots of one article through its saves *)

\* how often a stored image may have been encoded before the saves stop
MaxEncodings == 2

Dims == {1, 2, 7, 300, 301, 1200, 1201, 3000}

UploadModes == {"RGB", "L", "RGBA", "LA", "P"}

Upload(stem, ext, w, h, mode, data) ==
  [name |-> <<stem, ext>>, width |-> w, height |-> h, mode |-> mode, data |-> data,
   encodings |-> 0, background |-> <<>>]

\* a large picture with transparency, a truncated file, and a 16-bit
\* picture that opens and cannot be written as JPEG
SideUploads ==
  {Upload("logo", ".png", 2400, 1800, "RGBA", "ok"),
   Upload("cut", ".jpg", 800, 600, "RGB", "truncated"),
   Upload("scan", ".png", 3000, 2000, "I;16", "ok")}

WideUploads ==
  {Upload("photo", ".png", w, h, m, "ok") : w \in Dims, h \in Dims, m \in UploadModes}

\* the request's files: an upload, or NoFile where the form leaves the slot
posted_images(u0, u1, u2) == [image |-> u0, image1 |-> u1, image2 |-> u2]

InitImage ==
  /\ clients = {[id |-> 1, domaine |-> dA, actif |-> TRUE, utilisateur_admin |-> "alice"]}
  /\ categories = {}
  /\ marques = {[id |-> 1, client |-> 1, nom_marque |-> ApiNomAb]}
  /\ articles = {}
  /\ nextId = [client |-> 2, categorie |-> 1, marque |-> 2, article |-> 1]
  /\ resp = NoResp

\* an article is created with its uploads: image is required
ArticleCreate(u0, u1, u2) ==
  /\ articles = {}
  /\ articles' =
       {Article_save([id |-> nextId.article, client |-> 1, marque |-> 1,
                      categorie |-> NoId, modele |-> ApiNomB, prix |-> 1,
                      date_ajout |-> nextId.article,
                      image |-> u0, image_thumbnail |-> NoFile,
                      image1 |-> u1, image1_thumbnail |-> NoFile,
                      image2 |-> u2, image2_thumbnail |-> NoFile])}
  /\ nextId' = [nextId EXCEPT !.article = @ + 1]
  /\ resp' = [NoResp EXCEPT !.surface = "model", !.op = "create", !.model = "article",
                            !.target = nextId.article, !.status = 200,
                            !.params = posted_images(u0, u1, u2)]
  /\ UNCHANGED <<clients, categories, marques>>

\* a stored article is saved again: a slot without a new upload holds its
\* stored file
ArticleSaveAgain(id, u0, u1, u2) ==
  /\ id \in Ids(articles)
  /\ LET a == Row(articles, id) IN
       /\ a.image.encodings < MaxEncodings
       /\ a.image1.encodings < MaxEncodings
       /\ a.image2.encodings < MaxEncodings
       /\ articles' =
            (articles \ {a}) \cup
              {Article_save([a EXCEPT !.image = IF u0 = NoFile THEN @ ELSE u0,
                                      !.image1 = IF u1 = NoFile THEN @ ELSE u1,
                                      !.image2 = IF u2 = NoFile THEN @ ELSE u2])}
       /\ resp' = [NoResp EXCEPT !.surface = "model", !.op = "update", !.model = "article",
                                 !.target = id, !.status = 200, !.rows = {a},
                                 !.params = posted_images(u0, u1, u2)]
  /\ UNCHANGED <<clients, categories, marques, nextId>>

NextImage ==
  \/ Idle /\ \E u0 \in WideUploads \cup SideUploads, u1, u2 \in SideUploads \cup {NoFile} :
               ArticleCreate(u0, u1, u2)
  \/ Idle /\ \E id \in Ids(articles), u0, u1, u2 \in SideUploads \cup {NoFile} :
               ArticleSaveAgain(id, u0, u1, u2)
  \/ Deliver

SpecImage == InitImage /\ [][NextImage]_vars

---------------------------------------------------------------------------
(* Properties of the admin surface, checked under Spec *)

\* the rows of the tenant a user is linked to, read off the registry
RowsOfUser(u, rows) ==
  {r \in rows : \E c \in clients : c.utilisateur_admin = u /\ c.id = r.client}

Linked(u) == \E c \in clients : c.utilisateur_admin = u

AdminList == resp.surface = "admin" /\ resp.op = "list" /\ resp.model \in Models

\* C1: the changelist of Categorie, Marque and Article shows a superuser every
\* row, a non-superuser linked to a tenant exactly the rows of that tenant,
\* and a non-superuser without a tenant nothing
C1_AdminReadIsolation ==
  AdminList =>
    resp.rows = IF is_superuser(resp.user) THEN Table(resp.model)
                ELSE RowsOfUser(resp.user, Table(resp.model))

\* a linked non-superuser lists a table that also holds another tenant's row
C1_Witness ==
  /\ AdminList
  /\ ~is_superuser(resp.user)
  /\ resp.rows # {}
  /\ Table(resp.model) \ resp.rows # {}

AdminSavedAdd ==
  /\ resp.surface = "admin"
  /\ resp.op = "add"
  /\ resp.model \in Models
  /\ resp.body = {"saved"}

\* C6: a row a non-superuser created through the admin carries the tenant
\* linked to that user, whatever client the request posted, and the client
\* is no field of the form the user is given
C6_TenantStamping ==
  /\ \A u \in Users, m \in Models : ~is_superuser(u) => "client" \notin get_fields(u, m)
  /\ (AdminSavedAdd /\ ~is_superuser(resp.user)) =>
       /\ Linked(resp.user)
       /\ {Row(Table(resp.model), resp.target)} =
            RowsOfUser(resp.user, {Row(Table(resp.model), resp.target)})

\* a non-superuser posted another tenant's id and the row was stored under
\* the user's own tenant
C6_Witness ==
  /\ AdminSavedAdd
  /\ ~is_superuser(resp.user)
  /\ resp.posted_client # NoId
  /\ Row(Table(resp.model), resp.target).client # resp.posted_client

\* C7: every stored Article's client equals the client of its Marque
C7_ArticleMarqueAgreement ==
  \A a \in articles : a.client = Row(marques, a.marque).client

\* C8: the Marque and Categorie options of the Article form, and the lookups
\* of the two list filters, are for a non-superuser exactly the rows of the
\* user's tenant, and empty for a non-superuser without a tenant
C8_TenantScopedPickers ==
  /\ (resp.surface = "admin" /\ resp.op = "form" /\ ~is_superuser(resp.user)) =>
       /\ resp.marque_options = RowsOfUser(resp.user, marques)
       /\ resp.categorie_options = RowsOfUser(resp.user, categories)
  /\ (AdminList /\ resp.model = "article" /\ ~is_superuser(resp.user)) =>
       /\ resp.marque_options = RowsOfUser(resp.user, marques)
       /\ resp.categorie_options = RowsOfUser(resp.user, categories)

\* a linked non-superuser opens the Article form while another tenant has a
\* brand
C8_Witness ==
  /\ resp.surface = "admin"
  /\ resp.op = "form"
  /\ ~is_superuser(resp.user)
  /\ resp.marque_options # {}
  /\ marques \ resp.marque_options # {}

ClientRequest == resp.surface = "admin" /\ resp.model = "client"

\* C9: every ClientAdmin permission is the user's superuser flag, a
\* non-superuser's request on a Client is denied and shows no Client, and the
\* registry changes only in a superuser's ClientAdmin request
C9_TenantRecordsSuperuserOnly ==
  /\ [](/\ \A u \in Users :
              /\ has_module_permission(u) = is_superuser(u)
              /\ has_view_permission(u) = is_superuser(u)
              /\ has_add_permission(u) = is_superuser(u)
              /\ has_change_permission(u) = is_superuser(u)
              /\ has_delete_permission(u) = is_superuser(u)
        /\ (ClientRequest /\ ~is_superuser(resp.user)) =>
              resp.status = 403 /\ resp.rows = {})
  /\ [][clients' # clients =>
          /\ resp'.surface = "admin"
          /\ resp'.model = "client"
          /\ is_superuser(resp'.user)]_vars

\* a non-superuser asked to change an existing Client and was denied
C9_Witness ==
  /\ ClientRequest
  /\ resp.op = "change"
  /\ ~is_superuser(resp.user)
  /\ resp.target \in Ids(clients)
  /\ resp.status = 403

---------------------------------------------------------------------------
(* Properties of the public API, checked under SpecApi *)

ApiRequest == resp.surface = "api"

\* the origin a request is resolved by, normalized
NormalizedOrigin == rstrip_slash(request_origin(resp.origin, resp.referer))

\* the active tenants registered under the request's normalized origin
TenantsOfOrigin == {c \in clients : c.actif /\ c.domaine = NormalizedOrigin}

\* C2: every row any public endpoint returns, for any query parameters,
\* belongs to the tenant resolved from the request's origin
C2_PublicApiIsolation ==
  ApiRequest =>
    \A r \in resp.rows : /\ TenantsOfOrigin # {}
                         /\ \A c \in TenantsOfOrigin : r.client = c.id

\* a search answered with rows while an article of another tenant matches
\* the same term and filters
C2_Witness ==
  /\ ApiRequest
  /\ resp.op = "recherche"
  /\ resp.rows # {}
  /\ Recherche_queryset_unscoped(resp.origin, resp.referer, resp.params) \ resp.rows # {}

\* the request names no origin at all, or its normalized origin is no
\* registered domaine
UnknownOrigin ==
  /\ ApiRequest
  /\ \/ (Falsy(resp.origin) /\ Falsy(resp.referer))
     \/ /\ ~resolution_raises(resp.origin, resp.referer)
        /\ \A c \in clients : c.domaine # NormalizedOrigin

BlankQ(q) == q = None \/ \A i \in 1..Len(q) : IsSpace(q[i])

InactiveOrigin ==
  /\ ApiRequest
  /\ ~resolution_raises(resp.origin, resp.referer)
  /\ \E c \in clients : ~c.actif /\ c.domaine = NormalizedOrigin

\* C4: while a tenant is inactive, a request from its domaine resolves to no
\* tenant and receives no row
C4_DeactivationHides ==
  InactiveOrigin => resp.rows = {} /\ resp.client = NoId

\* a request from the domaine of a deactivated tenant that owns articles is
\* answered with an empty list
C4_Witness ==
  /\ InactiveOrigin
  /\ resp.status = 200
  /\ resp.op = "articles"
  /\ \E c \in clients :
       /\ ~c.actif
       /\ c.domaine = NormalizedOrigin
       /\ \E a \in articles : a.client = c.id

\* the origin the resolver must choose: Origin when present and not empty,
\* else scheme://netloc of the Referer
ChosenOrigin(origin_h, referer_h) ==
  IF origin_h # None /\ origin_h # <<>> THEN origin_h
  ELSE url_scheme(referer_h) \o <<":", "/", "/">> \o url_netloc(referer_h)

\* C5: the resolved tenant is the active tenant whose domaine is the chosen
\* origin without its trailing '/', the Referer counts only when Origin is
\* absent or empty, and two origins that differ by a trailing '/' resolve
\* alike
C5_ResolutionOrder ==
  /\ (ApiRequest /\ resp.resolved) =>
       LET o == ChosenOrigin(resp.origin, resp.referer)
           found == {c \in clients : c.actif /\ c.domaine = rstrip_slash(o)}
       IN IF (Falsy(resp.origin) /\ Falsy(resp.referer)) \/ found = {}
            THEN resp.client = NoId
            ELSE \A c \in found : resp.client = c.id
  /\ \A o \in OriginHeaders \ {None, <<>>}, r \in RefererHeaders :
       /\ get_client_from_request(o, r) = get_client_from_request(o, None)
       /\ get_client_from_request(o \o <<"/">>, r) = get_client_from_request(o, r)

\* Origin names the first tenant with a trailing '/', the Referer names the
\* second, active, tenant, and the first tenant is resolved
C5_Witness ==
  /\ ApiRequest
  /\ resp.resolved
  /\ resp.origin = dA \o <<"/">>
  /\ resp.referer = dB \o <<"/", "p">>
  /\ resp.client = 1
  /\ \E c \in clients : c.id = 2 /\ c.actif

\* C10: /recherche/ answers a missing, empty or whitespace-only q with
\* status 400, an error message and an example, and no article, whether or
\* not a tenant resolves
C10_RequiredSearchTerm ==
  (ApiRequest /\ resp.op = "recherche" /\ BlankQ(resp.params.q)) =>
    /\ resp.status = 400
    /\ resp.body = {"error", "example"}
    /\ resp.rows = {}

\* a whitespace-only q from the origin of an active tenant is answered 400
C10_Witness ==
  /\ ApiRequest
  /\ resp.op = "recherche"
  /\ resp.params.q = <<" ">>
  /\ resp.status = 400
  /\ TenantsOfOrigin # {}

---------------------------------------------------------------------------
(* Properties of the catalogue queries, checked under SpecApi *)

\* text contains term, case ignored
HasTerm(text, term) ==
  \E i \in 1..(Len(text) - Len(term) + 1) :
    \A k \in 1..Len(term) : Lower(text[i + k - 1]) = Lower(term[k])

SameText(text, term) ==
  Len(text) = Len(term) /\ \A k \in 1..Len(term) : Lower(text[k]) = Lower(term[k])

BrandName(a) == (CHOOSE m \in marques : m.id = a.marque).nom_marque

\* the category names of an article: none when it has no category
CategoryNames(a) == {c.nom : c \in {x \in categories : x.id = a.categorie}}

\* a search answered with a page of articles for a resolved tenant
SearchAnswered ==
  /\ ApiRequest
  /\ resp.op = "recherche"
  /\ resp.status = 200
  /\ resp.client # NoId

\* the articles /recherche/ must find for the request answered last
SearchExpected ==
  {a \in articles :
     /\ a.client = resp.client
     /\ \/ HasTerm(a.modele, strip(resp.params.q))
        \/ HasTerm(BrandName(a), strip(resp.params.q))
        \/ \E n \in CategoryNames(a) : HasTerm(n, strip(resp.params.q))
     /\ Falsy(resp.params.marque) \/ SameText(BrandName(a), resp.params.marque)
     /\ resp.params.prix_max = NoPrix \/ a.prix <= resp.params.prix_max}

\* the size of the page a response carries
PageLimit == get_page_size(resp.params.page_size)

FeaturedAnswered == ApiRequest /\ resp.op = "featured" /\ resp.status = 200

\* the request carries none of the marque, categorie, prix_min and prix_max
\* parameters
NoFilterParams ==
  /\ Falsy(resp.params.marque)
  /\ Falsy(resp.params.categorie)
  /\ resp.params.prix_min = NoPrix
  /\ resp.params.prix_max = NoPrix

\* the articles of the tenants registered, active, under the request's origin
OriginArticles == {a \in articles : \E c \in TenantsOfOrigin : a.client = c.id}

\* the articles of the origin's tenant that fewer than 8 of them are newer than
EightNewest ==
  {a \in OriginArticles :
     Cardinality({b \in OriginArticles : b.date_ajout > a.date_ajout}) < 8}

DateOf(id) == (CHOOSE a \in articles : a.id = id).date_ajout

\* C12: featured returns at most 8 articles, all of the resolved tenant,
\* newest first: the 8 the tenant added last, all of them when it owns 8 or
\* fewer, and none without a resolved tenant
C12_FeaturedBoundAndOrder ==
  FeaturedAnswered =>
    /\ Len(resp.order) <= 8
    /\ Cardinality(resp.rows) = Len(resp.order)
    /\ resp.rows \subseteq OriginArticles
    /\ \A i, j \in 1..Len(resp.order) :
         i < j => DateOf(resp.order[i]) > DateOf(resp.order[j])
    /\ resp.rows = EightNewest

\* what holds of every featured answer: the bound, the tenant and the order
FeaturedBoundTenantOrder ==
  FeaturedAnswered =>
    /\ Len(resp.order) <= 8
    /\ resp.rows \subseteq OriginArticles
    /\ \A i, j \in 1..Len(resp.order) :
         i < j => DateOf(resp.order[i]) > DateOf(resp.order[j])
    /\ NoFilterParams => resp.rows = EightNewest

\* C13: the result of featured is the 8 newest articles of the origin's
\* tenant whatever marque, categorie, prix_min and prix_max the request
\* carries, so two requests of one origin that differ only in these
\* parameters get the same answer
C13_FeaturedIgnoresFilters ==
  FeaturedAnswered => resp.rows = EightNewest

---------------------------------------------------------------------------
(* Properties of the stored images, checked under SpecImage *)

ImageSlots ==
  {<<"image", "image_thumbnail">>, <<"image1", "image1_thumbnail">>,
   <<"image2", "image2_thumbnail">>}

\* the last step was a save of an article
ArticleSaved == resp.surface = "model" /\ resp.model = "article"

\* the article as it is stored after the save
SavedRow == Row(articles, resp.target)

\* the file the request carried for the slot, NoFile for none
Posted(slot) == resp.params[slot[1]]

\* the upload cannot be read as a picture or cannot be written as JPEG
FailingUpload(u) == u.data = "truncated" \/ u.mode = "I;16"

\* C14: a save in which the image of a slot fails to decode or to encode
\* still stores the article; the failing slot holds the upload as it came and
\* no thumbnail; each other slot with an upload that works holds the
\* optimized JPEG of its own upload and a thumbnail of it, and a slot that
\* never had a file stays empty
C14_ImageFailureNeverBlocksSave ==
  ArticleSaved =>
    /\ resp.status = 200
    /\ resp.target \in Ids(articles)
    /\ \A slot \in ImageSlots :
         /\ (Posted(slot) # NoFile /\ FailingUpload(Posted(slot))) =>
              /\ SavedRow[slot[1]] = Posted(slot)
              /\ SavedRow[slot[2]] = NoFile
         /\ (Posted(slot) # NoFile /\ ~FailingUpload(Posted(slot))) =>
              /\ SavedRow[slot[1]].name =
                   <<Posted(slot).name[1], "_optimized", ".jpg">>
              /\ SavedRow[slot[1]].encodings = 1
              /\ SavedRow[slot[2]].name =
                   <<Posted(slot).name[1], "_optimized", "_thumb", ".jpg">>
         /\ (Posted(slot) = NoFile /\ resp.op = "create") =>
              /\ SavedRow[slot[1]] = NoFile
              /\ SavedRow[slot[2]] = NoFile

\* a save with a truncated file in one slot, a picture that works in the
\* second and a picture JPEG cannot hold in the third
C14_Witness ==
  /\ ArticleSaved
  /\ resp.target \in Ids(articles)
  /\ Posted(<<"image", "image_thumbnail">>).data = "truncated"
  /\ Posted(<<"image1", "image1_thumbnail">>).mode = "RGBA"
  /\ Posted(<<"image2", "image2_thumbnail">>).mode = "I;16"
  /\ SavedRow.image1_thumbnail # NoFile
  /\ SavedRow.image_thumbnail = NoFile

\* the row the save started from, for a save of a stored article
RowBefore == CHOOSE a \in resp.rows : TRUE

\* C15: a save of a stored article that carries no new file for a slot
\* leaves the slot's stored image and thumbnail as they were
C15_NoRederivationOnUnchangedInput ==
  (ArticleSaved /\ resp.op = "update") =>
    \A slot \in ImageSlots :
      Posted(slot) = NoFile =>
        /\ SavedRow[slot[1]] = RowBefore[slot[1]]
        /\ SavedRow[slot[2]] = RowBefore[slot[2]]

Larger(a, b) == IF a >= b THEN a ELSE b

\* both sides fit the box
Within(f, box) == f.width <= box /\ f.height <= box

\* the derivative f of a picture of w by h pixels is not larger on either
\* side, has at least one pixel each way, keeps the picture's size when the
\* picture fits the box, and otherwise its shorter side is less than one
\* pixel away from the proportional length
Resized(f, w, h, box) ==
  /\ Within(f, box)
  /\ f.width >= 1 /\ f.height >= 1
  /\ f.width <= w /\ f.height <= h
  /\ (w <= box /\ h <= box) => (f.width = w /\ f.height = h)
  /\ Abs(f.width * h - f.height * w) < Larger(w, h)

\* what the claim says of the slot, for the upload u the request carried
DerivativesOf(slot, u) ==
  /\ Resized(SavedRow[slot[1]], u.width, u.height, optimized_max)
  /\ SavedRow[slot[2]] # NoFile
  /\ Resized(SavedRow[slot[2]], SavedRow[slot[1]].width, SavedRow[slot[1]].height,
             thumbnail_max)
  /\ Within(SavedRow[slot[2]], thumbnail_max)
  /\ SavedRow[slot[1]].mode \notin {"RGBA", "LA", "P"}
  /\ u.mode \in {"RGBA", "LA", "P"} =>
       /\ SavedRow[slot[1]].mode = "RGB"
       /\ SavedRow[slot[1]].background = <<u.width, u.height>>

---------------------------------------------------------------------------
(* Properties of ownership and of the writes, checked under Spec *)

\* every category, brand and article has a client, and that client exists
OwnedByExistingTenant ==
  /\ \A r \in categories : r.client # NoId /\ r.client \in Ids(clients)
  /\ \A r \in marques : r.client # NoId /\ r.client \in Ids(clients)
  /\ \A r \in articles : r.client # NoId /\ r.client \in Ids(clients)

\* every article has a brand, and that brand exists
ArticleBrandExists == \A a \in articles : a.marque \in Ids(marques)

\* a step that deletes the tenant id removes the rows id owns and no other
TenantDeleteRemovesOwnRows(id) ==
  /\ categories' = {r \in categories : r.client # id}
  /\ marques' = {r \in marques : r.client # id}
  /\ articles' = {r \in articles : r.client # id}

\* a step that deletes the tenant id removes the rows id owns, and of the
\* other tenants' rows only articles that point at a brand or category of id
TenantDeleteCascade(id) ==
  /\ categories' = {r \in categories : r.client # id}
  /\ marques' = {r \in marques : r.client # id}
  /\ articles' \subseteq {r \in articles : r.client # id}
  /\ \A a \in articles \ articles' :
       \/ a.client = id
       \/ Row(marques, a.marque).client = id
       \/ (a.categorie # NoId /\ Row(categories, a.categorie).client = id)

\* C17: every stored category, brand and article belongs to one existing
\* tenant, every article points at an existing brand, and a step that
\* deletes a tenant removes exactly the rows that tenant owns
C17_OwnershipAndReferentialIntegrity ==
  /\ [](OwnedByExistingTenant /\ ArticleBrandExists)
  /\ [][\A id \in Ids(clients) \ Ids(clients') : TenantDeleteRemovesOwnRows(id)]_vars

\* what holds of C17: ownership, the brand reference, and the cascade
OwnershipAndCascade ==
  /\ [](OwnedByExistingTenant /\ ArticleBrandExists)
  /\ [][\A id \in Ids(clients) \ Ids(clients') : TenantDeleteCascade(id)]_vars

---------------------------------------------------------------------------
(* Properties of the article list, checked under SpecApi *)

\* GET /articles/ was answered for a resolved tenant
ListAnswered ==
  /\ ApiRequest
  /\ resp.op = "articles"
  /\ resp.status = 200
  /\ resp.client # NoId

\* the free-text term of the request, <<>> for none
ListSearchTerm == IF resp.params.search = None THEN <<>> ELSE strip(resp.params.search)

\* the tenant's articles that pass every filter the request supplies
ListExpected ==
  {a \in articles :
     /\ a.client = resp.client
     /\ Falsy(resp.params.marque) \/ SameText(BrandName(a), resp.params.marque)
     /\ Falsy(resp.params.categorie)
          \/ \E n \in CategoryNames(a) : HasTerm(n, resp.params.categorie)
     /\ resp.params.prix_min = NoPrix \/ a.prix >= resp.params.prix_min
     /\ resp.params.prix_max = NoPrix \/ a.prix <= resp.params.prix_max
     /\ \/ ListSearchTerm = <<>>
        \/ HasTerm(a.modele, ListSearchTerm)
        \/ HasTerm(BrandName(a), ListSearchTerm)
        \/ \E n \in CategoryNames(a) : HasTerm(n, ListSearchTerm)}

---------------------------------------------------------------------------
(* Properties of the object endpoints, checked under SpecWrites *)

ObjectOps == {"retrieve", "update", "destroy"}

\* the rows of the three tables a step removes or changes
RowsTouched ==
  (categories \ categories') \cup (marques \ marques') \cup (articles \ articles')

\* a step that answers a retrieve, update or delete of one row
ObjectStep == Idle /\ resp'.surface = "api" /\ resp'.op \in ObjectOps

\* the row the request named, as stored before the step
TargetRow == Row(Table(resp'.model), resp'.target)

\* the tenants the request's origin resolves to: one, or none
OwnersOfOrigin == {c.id : c \in TenantsOfOrigin'}

\* C19: a retrieve, update or delete through the three ViewSets reaches only
\* rows of the tenant resolved from the request's origin: every row the step
\* changes or removes belongs to that tenant, and when the row named belongs
\* to another tenant or no tenant resolves, no stored row changes
C19_ObjectLevelIsolation ==
  [][ObjectStep =>
       /\ \A r \in RowsTouched : r.client \in OwnersOfOrigin
       /\ TargetRow.client \notin OwnersOfOrigin => RowsTouched = {}]_vars

\* what holds of C19: the row looked up is of the resolved tenant or the
\* request fails without a change, and a step touches the row named and the
\* articles that point at it
ObjectLookupIsolation ==
  [][ObjectStep =>
       /\ TargetRow.client \notin OwnersOfOrigin =>
            (resp'.status \in {404, 500} /\ RowsTouched = {})
       /\ resp'.status \in {200, 204} => TargetRow.client \in OwnersOfOrigin
       /\ \A r \in RowsTouched :
            \/ r = TargetRow
            \/ (resp'.model = "marque" /\ r \in articles /\ r.marque = resp'.target)
            \/ (resp'.model = "categorie" /\ r \in articles
                  /\ r.categorie = resp'.target)]_vars

---------------------------------------------------------------------------
(* Properties of the admin's edits, checked under Spec *)

\* a step that answers an admin request of a non-superuser
StaffStep == Idle /\ resp'.surface = "admin" /\ resp'.user \in Staff

\* the rows of a table that the step keeps have the client they had
SameOwners(before, after) ==
  \A r \in before : \A r2 \in after : r.id = r2.id => r2.client = r.client

\* the rows of a table that the step keeps with other values
Modified(before, after) ==
  {r \in before : \E r2 \in after : r.id = r2.id /\ r2 # r}

\* C20: an admin request of a non-superuser leaves the client of every
\* stored category, brand and article as it was, and the rows it modifies
\* are rows of the tenant the user is linked to
C20_EditsNeverMoveRows ==
  [][StaffStep =>
       /\ SameOwners(categories, categories')
       /\ SameOwners(marques, marques')
       /\ SameOwners(articles, articles')
       /\ Modified(categories, categories') \subseteq RowsOfUser(resp'.user, categories)
       /\ Modified(marques, marques') \subseteq RowsOfUser(resp'.user, marques)
       /\ Modified(articles, articles') \subseteq RowsOfUser(resp'.user, articles)
       /\ (resp'.op = "change" /\ resp'.body = {"saved"}) =>
            resp'.target \in Ids(RowsOfUser(resp'.user, Table(resp'.model)))]_vars

\* a non-superuser saved a change of its tenant's article, which now has a
\* category, while another tenant is registered
C20_Witness ==
  /\ resp.surface = "admin"
  /\ resp.op = "change"
  /\ resp.model = "article"
  /\ resp.user \in Staff
  /\ resp.body = {"saved"}
  /\ Cardinality(clients) = 2
  /\ \E a \in RowsOfUser(resp.user, articles) : a.id = resp.target /\ a.categorie # NoId

=============================================================================
